---- MODULE Spec2Model ----
(***************************************************************************)
(* Interview session orchestration of EasyJob: the useInterview hook, the  *)
(* InterviewPage that drives it, and the Session Store / Question Supplier *)
(* / Answer Evaluator they call over HTTP.                                 *)
(*                                                                         *)
(* One step of the model is one run of JavaScript between two awaits: an   *)
(* event handler or effect up to its first await, or the continuation of   *)
(* an async function when the call it awaits settles.  A server call takes *)
(* effect on the store in the step in which its response is delivered; the *)
(* evaluation of an answer is recorded in a step of its own, before the    *)
(* response is delivered, so that a submit can fail before it is recorded. *)
(* An async function keeps the values of the render it was called in (its  *)
(* closure); setState(prev => ...) updaters read the state of the moment.   *)
(***************************************************************************)
EXTENDS Naturals, Sequences, FiniteSets

\* ------------------------------------------------------------------ bounds
MaxQuestions == 3
MaxVisits == 2
MaxMessages == 9
MaxEndCalls == 2
MaxListed == 3
MaxContent == 3
MaxSends == 2
MaxStartCalls == 2

\* automatic speech attempts that may fail for one question text
MAX_RETRY_COUNT == 3

\* consecutive failed automatic attempts followed for one question text
MaxFailures == 5

\* handleDeleteInterview takes a session with a greater id for mock data
MockIdThreshold == 1000

\* question_count sent when the caller's count is missing or 0
DefaultQuestionCount == 10

Clients == {1, 2}

\* the resumes of the user, and the statuses the store gives a listed session
ResumeIds == {1, 2}
SessionStatuses == {"active", "completed"}
\* the question_index values a response of getNextInterviewQuestion may carry
QuestionIndices == 0..(MaxQuestions + 1)
\* ids of stored sessions: below, at and above the id the interviews page takes for
\* the first mock id
StoredIds == {MockIdThreshold - 1, MockIdThreshold, MockIdThreshold + 1}
\* the content of one data event of the chat stream: none, or one piece of text
Chunks == {<<>>, <<"x">>, <<"y">>}
\* the texts of the questions VoiceControls is given
QuestionTexts == {"q1", "q2"}
\* the text of an answer: the code only tests whether it is empty
AnswerTexts == {"a1"}
\* the questionCount of the page's URL
QuestionCountParams == {1, MaxQuestions}

VARIABLES
  store,  \* Session Store: the sessions of the resume, store[id]
  hook,   \* hook[c]: the state of useInterview in page c
  page,   \* page[c]: the state and refs of InterviewPage c
  net,    \* net[c]: the async functions of page c that await a response
  interviews,  \* the state of InterviewsPage: the session list it fetched and shows
  chat,   \* the state of useStreamingChat, its stream and what it gave its caller
  voice   \* the state of VoiceControls: the auto-play of the question text

vars == <<store, hook, page, net, interviews, chat, voice>>

\* ------------------------------------------------------------- data shapes
\* currentSession === null
NullSession == [id |-> 0, questions |-> 0, answers |-> <<>>, currentQuestionIndex |-> 0]

NoTimer == [set |-> FALSE, inputMessage |-> "", interviewLoading |-> FALSE,
            currentSession |-> NullSession]

ChatMessage(type, kind, n) == [type |-> type, kind |-> kind, n |-> n]

InitialHook == [isInterviewActive |-> FALSE, currentSession |-> NullSession,
                isLoading |-> FALSE, hasAutoLoaded |-> FALSE]

InitialPage == [open |-> TRUE, sessionId |-> 0, messages |-> <<>>, currentQuestion |-> 1,
                hasStartedInterview |-> FALSE, interviewError |-> "", inputMessage |-> "",
                processedSessionRef |-> 0, hasCheckedExistingSession |-> FALSE,
                visit |-> 1]

InitialNet == [check |-> "none", activeSession |-> 0, start |-> "none", config |-> 0,
               session |-> 0, load |-> 0, answers |-> <<>>, ends |-> <<>>, timer |-> NoTimer,
               startCalls |-> 0, startResult |-> 0]

\* InterviewsPage before its first fetch: no response, interviewSessions is []
InitialInterviews == [allSessions |-> <<>>, interviewSessions |-> <<>>, fetched |-> FALSE,
                      deleting |-> {}, deleteErrors |-> {}]

\* useStreamingChat before a message is sent; `stream` is where the request stands,
\* `received` the content the stream has carried, `messages` and `errors` what
\* onMessage and onError were called with
InitialChat == [isStreaming |-> FALSE, currentStreamingMessage |-> <<>>,
                abortController |-> FALSE, stream |-> "none", streamingContent |-> <<>>,
                received |-> <<>>, messages |-> <<>>, errors |-> 0, sent |-> 0]

\* VoiceControls when mounted: autoPlay off, no question text, nothing played, no
\* retry recorded, no timer and no attempt; lastCallback is the callback called last
\* (onVoiceStart, onVoiceEnd, onVoiceError); failures counts, for each text, the failed
\* automatic attempts since its last success, shownFailures those of the current text
\* since it became the question text
InitialVoice == [autoPlay |-> FALSE, questionText |-> "", lastAutoPlayedText |-> "",
                 retryCount |-> [text \in QuestionTexts |-> 0],
                 isPlaying |-> FALSE, isLoading |-> FALSE,
                 timer |-> [set |-> FALSE, questionText |-> "", currentRetryCount |-> 0],
                 attempt |-> [pending |-> FALSE, questionText |-> "", currentRetryCount |-> 0],
                 lastCallback |-> "none",
                 failures |-> [text \in QuestionTexts |-> 0], shownFailures |-> 0]

RemoveAt(s, i) == SubSeq(s, 1, i - 1) \o SubSeq(s, i + 1, Len(s))

\* ---------------------------------------------------------- Session Store
\* the sessions the store lists for the resume: those created and not deleted
Sessions == {s \in 1..Len(store) : store[s].status # "deleted"}

ActiveSessions == {s \in Sessions : store[s].status = "active"}

\* POST /interview/start
CreateSession(st, questionCount) ==
  Append(st, [status |-> "active", questions |-> questionCount, answers |-> <<>>])

\* POST /interview/{id}/end: ending a completed session is a no-op success
EndSession(st, s) ==
  IF st[s].status = "deleted" THEN st ELSE [st EXCEPT ![s].status = "completed"]

\* DELETE /interview/{id}
DeleteSession(st, s) == [st EXCEPT ![s].status = "deleted"]

\* POST /interview/{id}/answer: a completed session is frozen
EvaluatorAccepts(st, s) == st[s].status = "active"

SubmitAnswer(st, s, answer, questionIndex) ==
  [st EXCEPT ![s].answers = Append(@, [answer |-> answer, question_index |-> questionIndex])]

\* GET /interview/{id}/question: the index of the next question, while one is planned
NextQuestionIndex(st, s) == Len(st[s].answers)

HasNextQuestion(st, s) == NextQuestionIndex(st, s) < st[s].questions

\* ---------------------------------------------------- useInterview: values
\* a startInterview that always asks for the default number of questions
QuestionCountIgnored(questionCount) == DefaultQuestionCount

\* question_count: questionCount || 10
QuestionCountOrDefault(questionCount) ==
  IF questionCount = 0 THEN DefaultQuestionCount ELSE questionCount

\* the local session startInterview builds from the created session
CreatedSession(id, backendSession) ==
  [id |-> id, questions |-> backendSession.questions, answers |-> backendSession.answers,
   currentQuestionIndex |-> 0]

\* setCurrentSession(prev => ...) after the first question was fetched
WithFirstQuestion(prev, questionIndex) ==
  IF prev.id # 0 THEN [prev EXCEPT !.currentQuestionIndex = questionIndex] ELSE NullSession

\* a loaded session that starts again at the first question
LoadedSessionFromStart(sessionId, existingSession) ==
  [id |-> sessionId, questions |-> existingSession.questions,
   answers |-> existingSession.answers, currentQuestionIndex |-> 0]

\* the local session loadExistingSession builds from the stored one
LoadedSession(sessionId, existingSession) ==
  [id |-> sessionId, questions |-> existingSession.questions,
   answers |-> existingSession.answers,
   currentQuestionIndex |-> Len(existingSession.answers)]

\* the message loadExistingSession emits for the adopted session
ContinueMessage(existingSession) ==
  LET answeredCount == Len(existingSession.answers)
      totalQuestions == existingSession.questions
  IN IF answeredCount < totalQuestions THEN ChatMessage("ai", "continue", answeredCount)
     ELSE IF answeredCount = totalQuestions /\ totalQuestions > 0
          THEN ChatMessage("ai", "continueAllDone", answeredCount)
          ELSE ChatMessage("ai", "continueDefault", 0)

\* sendAnswer that still calls the Evaluator when the index equals the question count
QuestionsExhaustedOffByOne(session) == session.currentQuestionIndex > session.questions

\* sendAnswer: currentSession.currentQuestionIndex >= currentSession.questions.length
QuestionsExhausted(session) == session.currentQuestionIndex >= session.questions

\* sendAnswer: if (!currentSession || !isInterviewActive) return
SendAnswerRejected(session, isInterviewActive) == session.id = 0 \/ ~isInterviewActive

\* an updater that records the answer and keeps the index
WithAnswerKeepsIndex(prev, answer, questionIndex) ==
  IF prev.id # 0
  THEN [prev EXCEPT !.answers = Append(prev.answers,
                                       [answer |-> answer, question_index |-> questionIndex])]
  ELSE NullSession

\* an updater that records the answer and skips a question
WithAnswerSkips(prev, answer, questionIndex) ==
  IF prev.id # 0
  THEN [prev EXCEPT !.currentQuestionIndex = prev.currentQuestionIndex + 2,
                    !.answers = Append(prev.answers,
                                       [answer |-> answer, question_index |-> questionIndex])]
  ELSE NullSession

\* a setCurrentSession updater of sendAnswer that does not test prev for null
WithAnswerRevives(prev, answer, questionIndex) ==
  [prev EXCEPT !.currentQuestionIndex = prev.currentQuestionIndex + 1,
               !.answers = Append(prev.answers,
                                  [answer |-> answer, question_index |-> questionIndex])]

\* setCurrentSession(prev => ...) of sendAnswer, after the evaluation arrived
WithAnswer(prev, answer, questionIndex) ==
  IF prev.id # 0
  THEN [prev EXCEPT !.currentQuestionIndex = prev.currentQuestionIndex + 1,
                    !.answers = Append(prev.answers,
                                       [answer |-> answer, question_index |-> questionIndex])]
  ELSE NullSession

\* a summary that counts the questions asked instead of the answers recorded
EndMessageCountsQuestions(session) ==
  ChatMessage("ai", "summary", session.currentQuestionIndex + 1)

\* the summary message of endInterview
EndMessage(session) == ChatMessage("ai", "summary", Len(session.answers))

\* ---------------------------------------------------- InterviewPage: values
\* handleSendMessage: if (!inputMessage.trim() || interviewLoading) return
SendMessageRejected(inputMessage, interviewLoading) == inputMessage = "" \/ interviewLoading

\* a check that takes a session for finished only when it has more answers than questions
ActuallyCompletedStrict(activeSession) ==
  Len(activeSession.answers) > activeSession.questions /\ activeSession.questions > 0

\* checkAndStartInterview: the session is finished although its status says active
ActuallyCompleted(activeSession) ==
  Len(activeSession.answers) >= activeSession.questions /\ activeSession.questions > 0

\* ------------------------------------------------------------------ Init
\* one page is open on the resume, the resume is loaded, no session is stored
Init ==
  /\ store = <<>>
  /\ hook = [c \in Clients |-> InitialHook]
  /\ page = [c \in Clients |-> [InitialPage EXCEPT !.open = (c = 1)]]
  /\ net = [c \in Clients |-> InitialNet]
  /\ interviews = InitialInterviews
  /\ chat = InitialChat
  /\ voice = InitialVoice

\* two pages (two tabs or devices) are open on the same resume
InitTwo ==
  /\ store = <<>>
  /\ hook = [c \in Clients |-> InitialHook]
  /\ page = [c \in Clients |-> InitialPage]
  /\ net = [c \in Clients |-> InitialNet]
  /\ interviews = InitialInterviews
  /\ chat = InitialChat
  /\ voice = InitialVoice

RECURSIVE Answered(_, _, _)
\* the store after the first n questions of session s were answered in order
Answered(st, s, n) ==
  IF n = 0 THEN st
  ELSE SubmitAnswer(Answered(st, s, n - 1), s, CHOOSE text \in AnswerTexts : TRUE, n - 1)

\* the page is opened on a resume for which two pages have each created a session
\* and answered some of its questions: both sessions are stored as active
InitDuplicates ==
  /\ \E q1, q2 \in QuestionCountParams :
       \E n1 \in 0..q1, n2 \in 0..q2 :
         store = Answered(Answered(CreateSession(CreateSession(<<>>, q1), q2), 1, n1), 2, n2)
  /\ hook = [c \in Clients |-> InitialHook]
  /\ page = [c \in Clients |-> [InitialPage EXCEPT !.open = (c = 1)]]
  /\ net = [c \in Clients |-> InitialNet]
  /\ interviews = InitialInterviews
  /\ chat = InitialChat
  /\ voice = InitialVoice

\* the page is opened on a resume that has no session, or one active session of which
\* some questions were answered
InitStored ==
  /\ \/ store = <<>>
     \/ \E q \in QuestionCountParams : \E n \in 0..q :
          store = Answered(CreateSession(<<>>, q), 1, n)
  /\ hook = [c \in Clients |-> InitialHook]
  /\ page = [c \in Clients |-> [InitialPage EXCEPT !.open = (c = 1)]]
  /\ net = [c \in Clients |-> InitialNet]
  /\ interviews = InitialInterviews
  /\ chat = InitialChat
  /\ voice = InitialVoice

\* ------------------------------------------------- Resolving: start a session
\* handleStartInterview() as checkAndStartInterview calls it, up to the await of
\* interviewApi.startInterview.  The closures are those of the render the effect ran
\* in: hasStartedInterview, isInterviewActive are false and no session id is set.
HandleStartInterview(c, questionCount) ==
  /\ page' = [page EXCEPT ![c].hasStartedInterview = TRUE,
                          ![c].messages = <<>>,
                          ![c].currentQuestion = 1]
  /\ hook' = [hook EXCEPT ![c].isLoading = TRUE]
  /\ net' = [net EXCEPT ![c].check = "none",
                        ![c].start = "create",
                        ![c].config = QuestionCountOrDefault(questionCount)]

\* a startInterview that does not test isInterviewActive
StartInterviewIgnoresActive(c, questionCount) ==
  /\ page[c].open
  /\ net[c].startCalls < MaxStartCalls
  /\ net[c].check = "none" /\ net[c].start = "none" /\ net[c].load = 0
  /\ UNCHANGED <<store, page>>
  /\ IF page[c].sessionId # 0 /\ ~hook[c].hasAutoLoaded
     THEN /\ net' = [net EXCEPT ![c].startCalls = @ + 1, ![c].startResult = 0]
          /\ UNCHANGED hook
     ELSE IF page[c].sessionId # 0
     THEN /\ hook' = [hook EXCEPT ![c].isLoading = TRUE]
          /\ net' = [net EXCEPT ![c].startCalls = @ + 1, ![c].startResult = 0,
                                ![c].load = page[c].sessionId]
     ELSE /\ hook' = [hook EXCEPT ![c].isLoading = TRUE]
          /\ net' = [net EXCEPT ![c].startCalls = @ + 1, ![c].startResult = 0,
                                ![c].start = "create",
                                ![c].config = QuestionCountOrDefault(questionCount)]
  /\ UNCHANGED <<interviews, chat, voice>>

\* startInterview(jdContent, questionCount) called by a user of the hook while no
\* start or load of the page is awaited, up to its first await; startResult is the id
\* of the session it returns at once (0: null, or nothing yet)
StartInterview(c, questionCount) ==
  /\ page[c].open
  /\ net[c].startCalls < MaxStartCalls
  /\ net[c].check = "none" /\ net[c].start = "none" /\ net[c].load = 0
  /\ UNCHANGED <<store, page>>
  /\ IF hook[c].isInterviewActive
     THEN /\ net' = [net EXCEPT ![c].startCalls = @ + 1,
                                ![c].startResult = hook[c].currentSession.id]
          /\ UNCHANGED hook
     ELSE IF page[c].sessionId # 0 /\ ~hook[c].hasAutoLoaded
     THEN /\ net' = [net EXCEPT ![c].startCalls = @ + 1, ![c].startResult = 0]
          /\ UNCHANGED hook
     ELSE IF page[c].sessionId # 0
     THEN /\ hook' = [hook EXCEPT ![c].isLoading = TRUE]
          /\ net' = [net EXCEPT ![c].startCalls = @ + 1, ![c].startResult = 0,
                                ![c].load = page[c].sessionId]
     ELSE /\ hook' = [hook EXCEPT ![c].isLoading = TRUE]
          /\ net' = [net EXCEPT ![c].startCalls = @ + 1, ![c].startResult = 0,
                                ![c].start = "create",
                                ![c].config = QuestionCountOrDefault(questionCount)]
  /\ UNCHANGED <<interviews, chat, voice>>

\* the auto-start effect of the page: runs checkAndStartInterview up to its fetch
AutoStartEffect(c) ==
  /\ page[c].open
  /\ ~hook[c].isInterviewActive
  /\ ~hook[c].isLoading
  /\ ~page[c].hasStartedInterview
  /\ page[c].sessionId = 0
  /\ ~page[c].hasCheckedExistingSession
  /\ page' = [page EXCEPT ![c].hasCheckedExistingSession = TRUE]
  /\ net' = [net EXCEPT ![c].check = "list"]
  /\ UNCHANGED <<store, hook>>
  /\ UNCHANGED <<interviews, chat, voice>>

\* the list of sessions arrived: sessions.find(s => s.status === 'active')
\* (the order of the list is the server's: any active session may come first)
CheckSessionsListed(c, questionCount) ==
  /\ net[c].check = "list"
  /\ UNCHANGED store
  /\ IF ActiveSessions = {}
     THEN HandleStartInterview(c, questionCount)
     ELSE \E s \in ActiveSessions :
            IF page[c].processedSessionRef = s
            THEN HandleStartInterview(c, questionCount)
            ELSE /\ net' = [net EXCEPT
                              ![c].check = IF ActuallyCompleted(store[s])
                                           THEN "autoEnd" ELSE "confirm",
                              ![c].activeSession = s]
                 /\ UNCHANGED <<hook, page>>
  /\ UNCHANGED <<interviews, chat, voice>>

\* the list request failed (response not ok, or fetch threw): the check is skipped
CheckListFailed(c, questionCount) ==
  /\ net[c].check = "list"
  /\ UNCHANGED store
  /\ HandleStartInterview(c, questionCount)
  /\ UNCHANGED <<interviews, chat, voice>>

\* the end request for a session found actually completed settled; a failure is
\* only logged
AutoFinalizeSettled(c, questionCount, ok) ==
  /\ net[c].check = "autoEnd"
  /\ store' = IF ok THEN EndSession(store, net[c].activeSession) ELSE store
  /\ HandleStartInterview(c, questionCount)
  /\ UNCHANGED <<interviews, chat, voice>>

\* confirm(...) returned true: continue the previous session
ConfirmContinue(c) ==
  /\ net[c].check = "confirm"
  /\ page' = [page EXCEPT ![c].processedSessionRef = net[c].activeSession,
                          ![c].sessionId = net[c].activeSession,
                          ![c].hasStartedInterview = TRUE]
  /\ net' = [net EXCEPT ![c].check = "none"]
  /\ UNCHANGED <<store, hook>>
  /\ UNCHANGED <<interviews, chat, voice>>

\* confirm(...) returned false: end the previous session, then start a new one
ConfirmDiscard(c) ==
  /\ net[c].check = "confirm"
  /\ net' = [net EXCEPT ![c].check = "discardEnd"]
  /\ UNCHANGED <<store, hook, page>>
  /\ UNCHANGED <<interviews, chat, voice>>

\* the end request of the discarded session resolved; response.ok is not read
DiscardEndResolved(c, questionCount, ok) ==
  /\ net[c].check = "discardEnd"
  /\ store' = IF ok THEN EndSession(store, net[c].activeSession) ELSE store
  /\ HandleStartInterview(c, questionCount)
  /\ UNCHANGED <<interviews, chat, voice>>

\* the end request of the discarded session threw: nothing is started
DiscardEndThrew(c) ==
  /\ net[c].check = "discardEnd"
  /\ net' = [net EXCEPT ![c].check = "none"]
  /\ UNCHANGED <<store, hook, page>>
  /\ UNCHANGED <<interviews, chat, voice>>

\* interviewApi.startInterview resolved: the session exists, the first question is
\* requested
StartCreated(c) ==
  /\ net[c].start = "create"
  /\ store' = CreateSession(store, net[c].config)
  /\ hook' = [hook EXCEPT
                ![c].currentSession = CreatedSession(Len(store'), store'[Len(store')]),
                ![c].isInterviewActive = TRUE]
  /\ net' = [net EXCEPT ![c].start = "question", ![c].session = Len(store')]
  /\ UNCHANGED page
  /\ UNCHANGED <<interviews, chat, voice>>

\* interviewApi.startInterview rejected
StartCreateFailed(c) ==
  /\ net[c].start = "create"
  /\ hook' = [hook EXCEPT ![c].isLoading = FALSE]
  /\ page' = [page EXCEPT ![c].interviewError = "start"]
  /\ net' = [net EXCEPT ![c].start = "none"]
  /\ UNCHANGED store
  /\ UNCHANGED <<interviews, chat, voice>>

\* getNextInterviewQuestion resolved with firstQuestion.question_index = questionIndex:
\* the index is stored as it came
FirstQuestionReturned(c, questionIndex) ==
  /\ net[c].start = "question"
  /\ page' = [page EXCEPT ![c].messages = Append(@, ChatMessage("ai", "welcome", 0))]
  /\ hook' = [hook EXCEPT
                ![c].currentSession = WithFirstQuestion(@, questionIndex),
                ![c].isLoading = FALSE]
  /\ net' = [net EXCEPT ![c].start = "none"]
  /\ UNCHANGED store
  /\ UNCHANGED <<interviews, chat, voice>>

\* getNextInterviewQuestion resolved with the question the Question Supplier plans next
FirstQuestionFetched(c) ==
  /\ net[c].start = "question"
  /\ HasNextQuestion(store, net[c].session)
  /\ FirstQuestionReturned(c, NextQuestionIndex(store, net[c].session))

\* getNextInterviewQuestion rejected: the default welcome message is used
FirstQuestionFailed(c) ==
  /\ net[c].start = "question"
  /\ page' = [page EXCEPT ![c].messages = Append(@, ChatMessage("ai", "fallback", 0))]
  /\ hook' = [hook EXCEPT ![c].isLoading = FALSE]
  /\ net' = [net EXCEPT ![c].start = "none"]
  /\ UNCHANGED store
  /\ UNCHANGED <<interviews, chat, voice>>

\* ------------------------------------------------- Resolving: adopt a session
\* the auto-load effect of the hook: loadExistingSession up to its await
AutoLoadEffect(c) ==
  /\ page[c].open
  /\ page[c].sessionId # 0
  /\ ~hook[c].hasAutoLoaded
  /\ ~hook[c].isInterviewActive
  /\ ~hook[c].isLoading
  /\ hook' = [hook EXCEPT ![c].hasAutoLoaded = TRUE, ![c].isLoading = TRUE]
  /\ net' = [net EXCEPT ![c].load = page[c].sessionId]
  /\ UNCHANGED <<store, page>>
  /\ UNCHANGED <<interviews, chat, voice>>

\* a loadExistingSession that adopts the session whatever its status
LoadSessionsListedAnyStatus(c) ==
  /\ net[c].load # 0
  /\ net' = [net EXCEPT ![c].load = 0]
  /\ UNCHANGED store
  /\ IF net[c].load \notin Sessions
     THEN /\ page' = [page EXCEPT ![c].interviewError = "load"]
          /\ hook' = [hook EXCEPT ![c].isLoading = FALSE]
     ELSE /\ hook' = [hook EXCEPT
                        ![c].currentSession = LoadedSession(net[c].load, store[net[c].load]),
                        ![c].isInterviewActive = TRUE,
                        ![c].isLoading = FALSE]
          /\ page' = [page EXCEPT
                        ![c].messages = Append(@, ContinueMessage(store[net[c].load]))]
  /\ UNCHANGED <<interviews, chat, voice>>

\* getInterviewSessions resolved in loadExistingSession
LoadSessionsListed(c) ==
  /\ net[c].load # 0
  /\ net' = [net EXCEPT ![c].load = 0]
  /\ UNCHANGED store
  /\ IF net[c].load \notin Sessions
     THEN /\ page' = [page EXCEPT ![c].interviewError = "load"]
          /\ hook' = [hook EXCEPT ![c].isLoading = FALSE]
     ELSE IF store[net[c].load].status = "completed"
     THEN /\ page' = [page EXCEPT ![c].interviewError = "completed"]
          /\ hook' = [hook EXCEPT ![c].isLoading = FALSE]
     ELSE /\ hook' = [hook EXCEPT
                        ![c].currentSession = LoadedSession(net[c].load, store[net[c].load]),
                        ![c].isInterviewActive = TRUE,
                        ![c].isLoading = FALSE]
          /\ page' = [page EXCEPT
                        ![c].messages = Append(@, ContinueMessage(store[net[c].load]))]
  /\ UNCHANGED <<interviews, chat, voice>>

\* getInterviewSessions rejected in loadExistingSession
LoadFailed(c) ==
  /\ net[c].load # 0
  /\ net' = [net EXCEPT ![c].load = 0]
  /\ page' = [page EXCEPT ![c].interviewError = "load"]
  /\ hook' = [hook EXCEPT ![c].isLoading = FALSE]
  /\ UNCHANGED store
  /\ UNCHANGED <<interviews, chat, voice>>

\* --------------------------------------------------------- Active: answers
\* the user types an answer (the textarea is disabled while loading)
TypeAnswer(c, text) ==
  /\ page[c].open
  /\ hook[c].isInterviewActive
  /\ ~hook[c].isLoading
  /\ page[c].inputMessage # text
  /\ page' = [page EXCEPT ![c].inputMessage = text]
  /\ UNCHANGED <<store, hook, net>>
  /\ UNCHANGED <<interviews, chat, voice>>

\* sendAnswer(answer) of the render that saw `session` and `isInterviewActive`, up to
\* its await of the Evaluator, with handleSendMessage's setInputMessage('') before it
\* and setCurrentQuestion(prev => prev + 1) after it when it returns at once;
\* `pending` is what the page awaits once the caller has done its own part
SendAnswer(c, answer, session, isInterviewActive, pending) ==
  IF SendAnswerRejected(session, isInterviewActive)
  THEN /\ page' = [page EXCEPT ![c].inputMessage = "",
                               ![c].currentQuestion = @ + 1]
       /\ net' = [net EXCEPT ![c] = pending]
       /\ UNCHANGED hook
  ELSE IF QuestionsExhausted(session)
  THEN /\ page' = [page EXCEPT
                     ![c].inputMessage = "",
                     ![c].messages = @ \o <<ChatMessage("user", "answer", 0),
                                            ChatMessage("ai", "allDone", 0)>>,
                     ![c].currentQuestion = @ + 1]
       /\ hook' = [hook EXCEPT ![c].isLoading = FALSE]
       /\ net' = [net EXCEPT ![c] = pending]
  ELSE /\ page' = [page EXCEPT
                     ![c].inputMessage = "",
                     ![c].messages = Append(@, ChatMessage("user", "answer", 0))]
       /\ hook' = [hook EXCEPT ![c].isLoading = TRUE]
       /\ net' = [net EXCEPT
                    ![c] = [pending EXCEPT
                              !.answers = Append(@, [session |-> session.id,
                                                     questionIndex |-> session.currentQuestionIndex,
                                                     answer |-> answer,
                                                     evaluated |-> FALSE,
                                                     stopped |-> FALSE])]]

\* the send button or the Enter key
HandleSendMessage(c) ==
  /\ page[c].open
  /\ hook[c].isInterviewActive
  /\ ~SendMessageRejected(page[c].inputMessage, hook[c].isLoading)
  /\ Len(page[c].messages) + 2 <= MaxMessages
  /\ SendAnswer(c, page[c].inputMessage, hook[c].currentSession,
                hook[c].isInterviewActive, net[c])
  /\ UNCHANGED store
  /\ UNCHANGED <<interviews, chat, voice>>

\* onTranscriptionComplete(text) of the voice recorder (disabled while loading):
\* setInputMessage(text) and a 500 ms timer that will call the handleSendMessage of
\* the current render
VoiceTranscriptionComplete(c, text) ==
  /\ page[c].open
  /\ hook[c].isInterviewActive
  /\ ~hook[c].isLoading
  /\ ~net[c].timer.set
  /\ page' = [page EXCEPT ![c].inputMessage = text]
  /\ net' = [net EXCEPT ![c].timer = [set |-> TRUE,
                                      inputMessage |-> page[c].inputMessage,
                                      interviewLoading |-> hook[c].isLoading,
                                      currentSession |-> hook[c].currentSession]]
  /\ UNCHANGED <<store, hook>>
  /\ UNCHANGED <<interviews, chat, voice>>

\* the timer fires: handleSendMessage and sendAnswer of the render the timer was set in
VoiceTimerFired(c) ==
  /\ net[c].timer.set
  /\ UNCHANGED store
  /\ IF SendMessageRejected(net[c].timer.inputMessage, net[c].timer.interviewLoading)
     THEN /\ net' = [net EXCEPT ![c].timer = NoTimer]
          /\ UNCHANGED <<hook, page>>
     ELSE /\ Len(page[c].messages) + 2 <= MaxMessages
          /\ SendAnswer(c, net[c].timer.inputMessage, net[c].timer.currentSession, TRUE,
                        [net[c] EXCEPT !.timer = NoTimer])
  /\ UNCHANGED <<interviews, chat, voice>>

\* the Answer Evaluator evaluates and records the answer of the i-th pending call
EvaluatorServes(c, i) ==
  /\ i \in 1..Len(net[c].answers)
  /\ ~net[c].answers[i].evaluated
  /\ LET call == net[c].answers[i]
     IN /\ EvaluatorAccepts(store, call.session)
        /\ store' = SubmitAnswer(store, call.session, call.answer, call.questionIndex)
  /\ net' = [net EXCEPT ![c].answers[i].evaluated = TRUE]
  /\ UNCHANGED <<hook, page>>
  /\ UNCHANGED <<interviews, chat, voice>>

\* submitInterviewAnswer resolved for the i-th pending sendAnswer
AnswerEvaluated(c, i) ==
  /\ i \in 1..Len(net[c].answers)
  /\ net[c].answers[i].evaluated
  /\ LET call == net[c].answers[i]
     IN /\ UNCHANGED store
        /\ page' = [page EXCEPT
                      ![c].messages = Append(@, ChatMessage("ai", "feedback", 0)),
                      ![c].currentQuestion = @ + 1]
        /\ hook' = [hook EXCEPT
                      ![c].currentSession = WithAnswer(@, call.answer, call.questionIndex),
                      ![c].isLoading = FALSE]
        /\ net' = [net EXCEPT ![c].answers = RemoveAt(@, i)]
  /\ UNCHANGED <<interviews, chat, voice>>

\* a sendAnswer that records the answer before the Evaluator replied and keeps it
\* when the call fails
AnswerFailedAfterAppend(c, i) ==
  /\ i \in 1..Len(net[c].answers)
  /\ ~net[c].answers[i].evaluated
  /\ page' = [page EXCEPT ![c].interviewError = "answer",
                          ![c].currentQuestion = @ + 1]
  /\ hook' = [hook EXCEPT
                ![c].currentSession = WithAnswer(@, net[c].answers[i].answer,
                                                 net[c].answers[i].questionIndex),
                ![c].isLoading = FALSE]
  /\ net' = [net EXCEPT ![c].answers = RemoveAt(@, i)]
  /\ UNCHANGED store
  /\ UNCHANGED <<interviews, chat, voice>>

\* a sendAnswer without its finally: a failed call leaves the loading flag set
AnswerFailedKeepsLoading(c, i) ==
  /\ i \in 1..Len(net[c].answers)
  /\ ~net[c].answers[i].evaluated
  /\ page' = [page EXCEPT ![c].interviewError = "answer",
                          ![c].currentQuestion = @ + 1]
  /\ net' = [net EXCEPT ![c].answers = RemoveAt(@, i)]
  /\ UNCHANGED <<store, hook>>
  /\ UNCHANGED <<interviews, chat, voice>>

\* a sendAnswer that takes the user's message back when the call fails
AnswerFailedDropsMessage(c, i) ==
  /\ i \in 1..Len(net[c].answers)
  /\ ~net[c].answers[i].evaluated
  /\ page' = [page EXCEPT ![c].interviewError = "answer",
                          ![c].currentQuestion = @ + 1,
                          ![c].messages = SubSeq(@, 1, Len(@) - 1)]
  /\ hook' = [hook EXCEPT ![c].isLoading = FALSE]
  /\ net' = [net EXCEPT ![c].answers = RemoveAt(@, i)]
  /\ UNCHANGED store
  /\ UNCHANGED <<interviews, chat, voice>>

\* submitInterviewAnswer rejected (transport error, timeout, remote error)
AnswerFailed(c, i) ==
  /\ i \in 1..Len(net[c].answers)
  /\ ~net[c].answers[i].evaluated
  /\ page' = [page EXCEPT ![c].interviewError = "answer",
                          ![c].currentQuestion = @ + 1]
  /\ hook' = [hook EXCEPT ![c].isLoading = FALSE]
  /\ net' = [net EXCEPT ![c].answers = RemoveAt(@, i)]
  /\ UNCHANGED store
  /\ UNCHANGED <<interviews, chat, voice>>

\* stopCurrentRequest() while a sendAnswer awaits the Evaluator: the function only
\* logs the call; `stopped` keeps, for the pending requests, that it was made
StopCurrentRequest(c) ==
  /\ page[c].open
  /\ net[c].answers # <<>>
  /\ \E i \in DOMAIN net[c].answers : ~net[c].answers[i].stopped
  /\ net' = [net EXCEPT
               ![c].answers = [i \in DOMAIN @ |-> [@[i] EXCEPT !.stopped = TRUE]]]
  /\ UNCHANGED <<store, hook, page>>
  /\ UNCHANGED <<interviews, chat, voice>>

\* ------------------------------------------------------------- Finalizing
\* the end button (shown while the interview is active): endInterview of the
\* current render up to its await
HandleEndInterview(c) ==
  /\ page[c].open
  /\ hook[c].isInterviewActive
  /\ Len(net[c].ends) < MaxEndCalls
  /\ IF hook[c].currentSession.id = 0
     THEN /\ page' = [page EXCEPT ![c].hasStartedInterview = FALSE]
          /\ UNCHANGED net
     ELSE /\ net' = [net EXCEPT ![c].ends = Append(@, hook[c].currentSession)]
          /\ UNCHANGED page
  /\ UNCHANGED <<store, hook>>
  /\ UNCHANGED <<interviews, chat, voice>>

\* an endInterview that keeps its session after the summary
EndInterviewDoneKeepsSession(c, i) ==
  /\ i \in 1..Len(net[c].ends)
  /\ net[c].ends[i].id \in Sessions
  /\ store' = EndSession(store, net[c].ends[i].id)
  /\ hook' = [hook EXCEPT ![c].isInterviewActive = FALSE]
  /\ page' = [page EXCEPT ![c].messages = Append(@, EndMessage(net[c].ends[i])),
                          ![c].hasStartedInterview = FALSE]
  /\ net' = [net EXCEPT ![c].ends = RemoveAt(@, i)]
  /\ UNCHANGED <<interviews, chat, voice>>

\* an endInterview that reports an error when the session was ended already
EndInterviewDoneStrict(c, i) ==
  /\ i \in 1..Len(net[c].ends)
  /\ net[c].ends[i].id \in Sessions
  /\ store' = EndSession(store, net[c].ends[i].id)
  /\ hook' = [hook EXCEPT ![c].isInterviewActive = FALSE,
                          ![c].currentSession = NullSession]
  /\ page' = [page EXCEPT
                ![c].messages = Append(@, EndMessage(net[c].ends[i])),
                ![c].hasStartedInterview = FALSE,
                ![c].interviewError =
                   IF store[net[c].ends[i].id].status = "completed" THEN "end" ELSE @]
  /\ net' = [net EXCEPT ![c].ends = RemoveAt(@, i)]
  /\ UNCHANGED <<interviews, chat, voice>>

\* interviewApi.endInterview resolved for the i-th pending endInterview
EndInterviewDone(c, i) ==
  /\ i \in 1..Len(net[c].ends)
  /\ net[c].ends[i].id \in Sessions
  /\ store' = EndSession(store, net[c].ends[i].id)
  /\ hook' = [hook EXCEPT ![c].isInterviewActive = FALSE,
                          ![c].currentSession = NullSession]
  /\ page' = [page EXCEPT ![c].messages = Append(@, EndMessage(net[c].ends[i])),
                          ![c].hasStartedInterview = FALSE]
  /\ net' = [net EXCEPT ![c].ends = RemoveAt(@, i)]
  /\ UNCHANGED <<interviews, chat, voice>>

\* an endInterview that gives up its session when the end request fails
EndInterviewFailedClearsSession(c, i) ==
  /\ i \in 1..Len(net[c].ends)
  /\ page' = [page EXCEPT ![c].interviewError = "end",
                          ![c].hasStartedInterview = FALSE]
  /\ hook' = [hook EXCEPT ![c].isInterviewActive = FALSE,
                          ![c].currentSession = NullSession]
  /\ net' = [net EXCEPT ![c].ends = RemoveAt(@, i)]
  /\ UNCHANGED store
  /\ UNCHANGED <<interviews, chat, voice>>

\* interviewApi.endInterview rejected: the hook reports it and returns normally
EndInterviewFailed(c, i) ==
  /\ i \in 1..Len(net[c].ends)
  /\ page' = [page EXCEPT ![c].interviewError = "end",
                          ![c].hasStartedInterview = FALSE]
  /\ net' = [net EXCEPT ![c].ends = RemoveAt(@, i)]
  /\ UNCHANGED <<store, hook>>
  /\ UNCHANGED <<interviews, chat, voice>>

\* ------------------------------------------------------- interviews page
\* interviewApi.deleteInterviewSession resolved for a session the interviews page
\* lists: the session is gone from the store
DeleteInterviewSession(s) ==
  /\ s \in Sessions
  /\ store' = DeleteSession(store, s)
  /\ UNCHANGED <<hook, page, net>>
  /\ UNCHANGED <<interviews, chat, voice>>

\* one session as getInterviewSessions returns it: created_at is a valid timestamp
ListedSession(id, resume_id, status, created_at) ==
  [id |-> id, resume_id |-> resume_id, status |-> status, created_at |-> created_at]

\* the place Array.prototype.sort gives session in a list already sorted by
\* (a, b) => b.created_at - a.created_at: after every session that is not older
\* (the sort is stable)
InsertByCreatedAt(sorted, session) ==
  LET before == Cardinality({k \in DOMAIN sorted :
                              sorted[k].created_at >= session.created_at})
  IN SubSeq(sorted, 1, before) \o <<session>> \o SubSeq(sorted, before + 1, Len(sorted))

RECURSIVE SortByCreatedAt(_)
\* allSessions.sort((a, b) => new Date(b.created_at) - new Date(a.created_at))
SortByCreatedAt(sessions) ==
  IF sessions = <<>> THEN <<>>
  ELSE InsertByCreatedAt(SortByCreatedAt(SubSeq(sessions, 1, Len(sessions) - 1)),
                         sessions[Len(sessions)])

\* a flagging that asks only for another active session of the resume
HasOtherActiveSession(session, allSessions) ==
  /\ session.status = "active"
  /\ \E k \in DOMAIN allSessions :
       /\ allSessions[k].resume_id = session.resume_id
       /\ allSessions[k].status = "active"
       /\ allSessions[k].id # session.id

\* isPossibleDuplicate: the session is active and duplicateActiveSessions (the other
\* active sessions of its resume) holds one that was created later
IsPossibleDuplicate(session, allSessions) ==
  /\ session.status = "active"
  /\ \E k \in DOMAIN allSessions :
       /\ allSessions[k].resume_id = session.resume_id
       /\ allSessions[k].status = "active"
       /\ allSessions[k].id # session.id
       /\ allSessions[k].created_at > session.created_at

\* processedSessions: every session with its isPossibleDuplicate
ProcessedSessions(allSessions) ==
  [k \in DOMAIN allSessions |->
     [id |-> allSessions[k].id, resume_id |-> allSessions[k].resume_id,
      status |-> allSessions[k].status, created_at |-> allSessions[k].created_at,
      isPossibleDuplicate |-> IsPossibleDuplicate(allSessions[k], allSessions)]]

\* the lists of at most MaxListed sessions that the responses for the resumes add up
\* to, in the order of the responses; the id of a session is its place there
ListedSessions ==
  UNION {{[k \in 1..n |-> ListedSession(k, f[k][1], f[k][2], f[k][3])] :
            f \in [1..n -> ResumeIds \X SessionStatuses \X (1..MaxListed)]} :
         n \in 0..MaxListed}

\* the interviews page is opened; allSessions is what its requests will return
InitInterviews ==
  /\ store = <<>>
  /\ hook = [c \in Clients |-> InitialHook]
  /\ page = [c \in Clients |-> [InitialPage EXCEPT !.open = FALSE]]
  /\ net = [c \in Clients |-> InitialNet]
  /\ interviews \in {[InitialInterviews EXCEPT !.allSessions = l] : l \in ListedSessions}
  /\ chat = InitialChat
  /\ voice = InitialVoice

\* fetchInterviewSessions() ran to its end: the sessions are sorted, flagged and set
FetchInterviewSessions ==
  /\ ~interviews.fetched
  /\ interviews' = [interviews EXCEPT
                      !.interviewSessions =
                         ProcessedSessions(SortByCreatedAt(interviews.allSessions)),
                      !.fetched = TRUE]
  /\ UNCHANGED <<store, hook, page, net, chat, voice>>

\* fetchInterviewSessions() threw: the error is shown and the list stays as it was
FetchInterviewSessionsFailed ==
  /\ ~interviews.fetched
  /\ interviews' = [interviews EXCEPT !.fetched = TRUE]
  /\ UNCHANGED <<store, hook, page, net, chat, voice>>

\* the ids of a list of sessions
SessionIds(sessions) == {sessions[k].id : k \in DOMAIN sessions}

RECURSIVE FilterSession(_, _)
\* prev.filter(s => s.id !== sessionId)
FilterSession(prev, sessionId) ==
  IF prev = <<>> THEN <<>>
  ELSE IF prev[1].id = sessionId THEN FilterSession(SubSeq(prev, 2, Len(prev)), sessionId)
       ELSE <<prev[1]>> \o FilterSession(SubSeq(prev, 2, Len(prev)), sessionId)

\* DELETE /interview/{id}: the store no longer returns the session
StoreWithout(sessions, sessionId) == FilterSession(sessions, sessionId)

\* the interviews page is opened by a user whose resume has up to MaxListed stored
\* sessions with ids of StoredIds
InitDeletes ==
  /\ store = <<>>
  /\ hook = [c \in Clients |-> InitialHook]
  /\ page = [c \in Clients |-> [InitialPage EXCEPT !.open = FALSE]]
  /\ net = [c \in Clients |-> InitialNet]
  /\ \E n \in 0..MaxListed : \E f \in [1..n -> StoredIds \X SessionStatuses] :
       /\ \A j, k \in 1..n : j # k => f[j][1] # f[k][1]
       /\ interviews = [InitialInterviews EXCEPT
                          !.allSessions = [k \in 1..n |-> ListedSession(f[k][1], 1, f[k][2], k)]]
  /\ chat = InitialChat
  /\ voice = InitialVoice

\* handleDeleteInterview(sessionId) of a listed session, up to its await: without the
\* confirmation nothing happens; a session with an id above 1000 is removed from the
\* list at once, for any other the store is asked
HandleDeleteInterview(sessionId, confirmed) ==
  /\ interviews.fetched
  /\ sessionId \in SessionIds(interviews.interviewSessions)
  /\ sessionId \notin interviews.deleting
  /\ interviews' =
       IF ~confirmed THEN interviews
       ELSE IF sessionId > MockIdThreshold
       THEN [interviews EXCEPT !.interviewSessions = FilterSession(@, sessionId)]
       ELSE [interviews EXCEPT !.deleting = @ \cup {sessionId}]
  /\ UNCHANGED <<store, hook, page, net, chat, voice>>

\* deleteInterviewSession resolved: the session is deleted in the store and removed
\* from the list
DeleteResolved(sessionId) ==
  /\ sessionId \in interviews.deleting
  /\ interviews' = [interviews EXCEPT
                      !.allSessions = StoreWithout(@, sessionId),
                      !.interviewSessions = FilterSession(@, sessionId),
                      !.deleting = @ \ {sessionId}]
  /\ UNCHANGED <<store, hook, page, net, chat, voice>>

\* deleteInterviewSession rejected: the error is shown, the list stays
DeleteRejected(sessionId) ==
  /\ sessionId \in interviews.deleting
  /\ interviews' = [interviews EXCEPT !.deleting = @ \ {sessionId},
                                      !.deleteErrors = @ \cup {sessionId}]
  /\ UNCHANGED <<store, hook, page, net, chat, voice>>

\* ---------------------------------------------------------- VoiceControls
\* the effect that drops old retry records: it runs when questionText or
\* lastAutoPlayedText changed, and keeps the record of the current text only
CleanupEffect(prev, v) ==
  IF /\ (v.questionText # prev.questionText \/ v.lastAutoPlayedText # prev.lastAutoPlayedText)
     /\ v.questionText # v.lastAutoPlayedText
  THEN [v EXCEPT !.retryCount =
          [text \in QuestionTexts |-> IF text = v.questionText THEN v.retryCount[text] ELSE 0]]
  ELSE v

\* the auto-play effect after a change of its dependencies: the timer of the last run
\* is cleared; a text that is not played yet gets a timer, unless it has used up its
\* retries, in which case it is marked as handled
AutoPlayEffect(v) ==
  LET w == [v EXCEPT !.timer = [set |-> FALSE, questionText |-> "", currentRetryCount |-> 0]]
  IN IF /\ w.autoPlay
        /\ w.questionText # ""
        /\ w.questionText # w.lastAutoPlayedText
        /\ ~w.isPlaying
        /\ ~w.isLoading
     THEN IF w.retryCount[w.questionText] >= MAX_RETRY_COUNT
          THEN [w EXCEPT !.lastAutoPlayedText = w.questionText]
          ELSE [w EXCEPT !.timer = [set |-> TRUE, questionText |-> w.questionText,
                                    currentRetryCount |-> w.retryCount[w.questionText]]]
     ELSE w

\* the component after the state change prev -> v and the effects it triggers
Rendered(prev, v) == AutoPlayEffect(CleanupEffect(prev, v))

InitAutoPlay ==
  /\ store = <<>>
  /\ hook = [c \in Clients |-> InitialHook]
  /\ page = [c \in Clients |-> InitialPage]
  /\ net = [c \in Clients |-> InitialNet]
  /\ interviews = InitialInterviews
  /\ chat = InitialChat
  /\ voice = InitialVoice

\* the parent switches the autoPlay prop
ToggleAutoPlay ==
  /\ voice' = Rendered(voice, [voice EXCEPT !.autoPlay = ~@])
  /\ UNCHANGED <<store, hook, page, net, interviews, chat>>

\* the parent passes another question text
QuestionTextChanged(text) ==
  /\ text # voice.questionText
  /\ voice' = Rendered(voice, [voice EXCEPT !.questionText = text, !.shownFailures = 0])
  /\ UNCHANGED <<store, hook, page, net, interviews, chat>>

\* the 500 ms timer of the auto-play effect fires: the attempt starts with the text and
\* the retry count the effect saw
AutoPlayTimerFired ==
  /\ voice.timer.set
  /\ voice.failures[voice.timer.questionText] < MaxFailures
  /\ voice' = Rendered(voice,
                [voice EXCEPT !.isLoading = TRUE, !.isPlaying = TRUE,
                              !.lastCallback = "start",
                              !.attempt = [pending |-> TRUE,
                                           questionText |-> voice.timer.questionText,
                                           currentRetryCount |-> voice.timer.currentRetryCount]])
  /\ UNCHANGED <<store, hook, page, net, interviews, chat>>

\* the speech was generated and played
AttemptSucceeded ==
  /\ voice.attempt.pending
  /\ LET text == voice.attempt.questionText
     IN voice' = Rendered(voice,
                   [voice EXCEPT !.lastAutoPlayedText = text,
                                 !.retryCount[text] = 0,
                                 !.lastCallback = "end",
                                 !.isLoading = FALSE, !.isPlaying = FALSE,
                                 !.attempt = [pending |-> FALSE, questionText |-> "",
                                              currentRetryCount |-> 0],
                                 !.failures[text] = 0,
                                 !.shownFailures = IF text = voice.questionText THEN 0 ELSE @])
  /\ UNCHANGED <<store, hook, page, net, interviews, chat>>

\* an attempt whose failure is not counted
AttemptFailedNotCounted ==
  /\ voice.attempt.pending
  /\ LET text == voice.attempt.questionText
     IN voice' = Rendered(voice,
                   [voice EXCEPT !.lastCallback = "error",
                                 !.isLoading = FALSE, !.isPlaying = FALSE,
                                 !.attempt = [pending |-> FALSE, questionText |-> "",
                                              currentRetryCount |-> 0],
                                 !.failures[text] = @ + 1,
                                 !.shownFailures = IF text = voice.questionText THEN @ + 1 ELSE @])
  /\ UNCHANGED <<store, hook, page, net, interviews, chat>>

\* generating or playing the speech failed: the count the attempt started with is
\* raised by one, and at MAX_RETRY_COUNT the text is marked as handled
AttemptFailed ==
  /\ voice.attempt.pending
  /\ LET text == voice.attempt.questionText
         newRetryCount == voice.attempt.currentRetryCount + 1
     IN voice' = Rendered(voice,
                   [voice EXCEPT !.retryCount[text] = newRetryCount,
                                 !.lastAutoPlayedText =
                                    IF newRetryCount >= MAX_RETRY_COUNT THEN text ELSE @,
                                 !.lastCallback = "error",
                                 !.isLoading = FALSE, !.isPlaying = FALSE,
                                 !.attempt = [pending |-> FALSE, questionText |-> "",
                                              currentRetryCount |-> 0],
                                 !.failures[text] = @ + 1,
                                 !.shownFailures = IF text = voice.questionText THEN @ + 1 ELSE @])
  /\ UNCHANGED <<store, hook, page, net, interviews, chat>>

\* ------------------------------------------------------- useStreamingChat
\* the finally of sendStreamingMessage
StreamingFinished(ch) ==
  [ch EXCEPT !.isStreaming = FALSE, !.currentStreamingMessage = <<>>,
             !.abortController = FALSE, !.stream = "none"]

\* sendStreamingMessage(message) up to its await of fetch; without a token it throws
\* before the request and reports the error
SendStreamingMessage(token) ==
  /\ ~chat.isStreaming
  /\ chat.sent < MaxSends
  /\ chat' = IF token
             THEN [chat EXCEPT !.isStreaming = TRUE, !.currentStreamingMessage = <<>>,
                               !.abortController = TRUE, !.stream = "fetch",
                               !.streamingContent = <<>>, !.received = <<>>,
                               !.sent = @ + 1]
             ELSE StreamingFinished([chat EXCEPT !.errors = @ + 1, !.sent = @ + 1])
  /\ UNCHANGED <<store, hook, page, net, interviews, voice>>

\* fetch resolved: with an ok response that has a body the stream is read, otherwise
\* the error is thrown and reported
StreamResponded(ok) ==
  /\ chat.stream = "fetch"
  /\ chat' = IF ok THEN [chat EXCEPT !.stream = "read"]
             ELSE StreamingFinished([chat EXCEPT !.errors = @ + 1])
  /\ UNCHANGED <<store, hook, page, net, interviews, voice>>

\* fetch or reader.read() rejected with an error that is no AbortError
StreamRejected ==
  /\ chat.stream \in {"fetch", "read"}
  /\ chat' = StreamingFinished([chat EXCEPT !.errors = @ + 1])
  /\ UNCHANGED <<store, hook, page, net, interviews, voice>>

\* a data line with content: if (data.content) streamingContent += data.content
StreamContent(chunk) ==
  /\ chat.stream = "read"
  /\ Len(chat.received) + Len(chunk) <= MaxContent
  /\ chat' = IF chunk # <<>>
             THEN [chat EXCEPT !.streamingContent = @ \o chunk,
                               !.currentStreamingMessage = chat.streamingContent \o chunk,
                               !.received = @ \o chunk]
             ELSE chat
  /\ UNCHANGED <<store, hook, page, net, interviews, voice>>

\* a data line with done: the message is built from streamingContent and given to
\* onMessage, the function returns
StreamDone ==
  /\ chat.stream = "read"
  /\ chat' = StreamingFinished([chat EXCEPT !.messages = Append(@, chat.streamingContent)])
  /\ UNCHANGED <<store, hook, page, net, interviews, voice>>

\* a data line with error: onError(data.error), the function returns
StreamError ==
  /\ chat.stream = "read"
  /\ chat' = StreamingFinished([chat EXCEPT !.errors = @ + 1])
  /\ UNCHANGED <<store, hook, page, net, interviews, voice>>

\* reader.read() returned done before a data line with done: the loop is left
StreamClosed ==
  /\ chat.stream = "read"
  /\ chat' = StreamingFinished(chat)
  /\ UNCHANGED <<store, hook, page, net, interviews, voice>>

\* stopStreaming(): abortControllerRef.current.abort(); the pending fetch or read will
\* reject with an AbortError
StopStreaming ==
  /\ chat.abortController
  /\ chat.stream \in {"fetch", "read"}
  /\ chat' = [chat EXCEPT !.stream = "aborted"]
  /\ UNCHANGED <<store, hook, page, net, interviews, voice>>

\* a catch that reports the AbortError like any other error
StreamAbortReported ==
  /\ chat.stream = "aborted"
  /\ chat' = StreamingFinished([chat EXCEPT !.errors = @ + 1])
  /\ UNCHANGED <<store, hook, page, net, interviews, voice>>

\* the rejection with the AbortError is caught: it is logged, nothing is reported
StreamAborted ==
  /\ chat.stream = "aborted"
  /\ chat' = StreamingFinished(chat)
  /\ UNCHANGED <<store, hook, page, net, interviews, voice>>

\* ------------------------------------------------------------------ reload
\* the page is loaded again (window.location.reload(), or the user comes back):
\* a new page and hook; what the old ones awaited is dropped
Reload(c) ==
  /\ page[c].open
  /\ page[c].visit < MaxVisits
  /\ hook' = [hook EXCEPT ![c] = InitialHook]
  /\ page' = [page EXCEPT ![c] = [InitialPage EXCEPT !.visit = page[c].visit + 1]]
  /\ net' = [net EXCEPT ![c] = InitialNet]
  /\ UNCHANGED store
  /\ UNCHANGED <<interviews, chat, voice>>

\* ------------------------------------------------------------------- steps
StartPath(c) ==
  \/ AutoStartEffect(c)
  \/ \E q \in QuestionCountParams : CheckSessionsListed(c, q)
  \/ StartCreated(c)
  \/ StartCreateFailed(c)
  \/ FirstQuestionFetched(c)
  \/ FirstQuestionFailed(c)

Reconcile(c) ==
  \/ ConfirmContinue(c)
  \/ ConfirmDiscard(c)
  \/ \E q \in QuestionCountParams, ok \in BOOLEAN : DiscardEndResolved(c, q, ok)
  \/ DiscardEndThrew(c)
  \/ AutoLoadEffect(c)
  \/ LoadSessionsListed(c)
  \/ LoadFailed(c)

AutoFinalize(c) ==
  \E q \in QuestionCountParams, ok \in BOOLEAN : AutoFinalizeSettled(c, q, ok)

\* the list request of the check fails while sessions may be stored
ListFailure(c) ==
  \E q \in QuestionCountParams : CheckListFailed(c, q)

AnswerRequest(c) ==
  \/ \E text \in AnswerTexts : TypeAnswer(c, text)
  \/ HandleSendMessage(c)

AnswerResponse(c) ==
  \/ \E i \in DOMAIN net[c].answers : EvaluatorServes(c, i)
  \/ \E i \in DOMAIN net[c].answers : AnswerEvaluated(c, i)
  \/ \E i \in DOMAIN net[c].answers : AnswerFailed(c, i)

Voice(c) ==
  \/ \E text \in AnswerTexts : VoiceTranscriptionComplete(c, text)
  \/ VoiceTimerFired(c)

EndResponse(c) ==
  \/ \E i \in DOMAIN net[c].ends : EndInterviewDone(c, i)
  \/ \E i \in DOMAIN net[c].ends : EndInterviewFailed(c, i)

\* one visit of the page, no session stored before it: every handler and response,
\* in every order the event loop allows
Next ==
  \E c \in Clients :
    \/ StartPath(c)
    \/ AnswerRequest(c) \/ AnswerResponse(c)
    \/ HandleEndInterview(c) \/ EndResponse(c)

Spec == Init /\ [][Next]_vars

\* one visit of the page whose user also answers by voice
NextVoice ==
  \E c \in Clients :
    StartPath(c) \/ AnswerRequest(c) \/ AnswerResponse(c) \/ Voice(c)

SpecVoice == Init /\ [][NextVoice]_vars

\* two pages that start an interview for the same resume
NextTwo == \E c \in Clients : StartPath(c) \/ Reconcile(c)

SpecTwo == InitTwo /\ [][NextTwo]_vars

\* two pages on the same resume that start, adopt and end sessions while sessions are
\* deleted from the interviews page
NextShared ==
  \/ \E c \in Clients :
       StartPath(c) \/ Reconcile(c) \/ HandleEndInterview(c) \/ EndResponse(c)
  \/ \E s \in Sessions : DeleteInterviewSession(s)

SpecShared == InitTwo /\ [][NextShared]_vars

\* one visit of the page while two active sessions of the resume are stored
NextDuplicates ==
  \E c \in Clients : StartPath(c) \/ Reconcile(c) \/ AutoFinalize(c)

SpecDuplicates == InitDuplicates /\ [][NextDuplicates]_vars

\* one visit of the page when the first question's question_index is whatever the
\* response carries
NextSupplier ==
  \E c \in Clients :
    \/ AutoStartEffect(c)
    \/ \E q \in QuestionCountParams : CheckSessionsListed(c, q)
    \/ StartCreated(c)
    \/ StartCreateFailed(c)
    \/ \E questionIndex \in QuestionIndices : FirstQuestionReturned(c, questionIndex)
    \/ FirstQuestionFailed(c)
    \/ AnswerRequest(c) \/ AnswerResponse(c)

SpecSupplier == Init /\ [][NextSupplier]_vars

\* one visit of the page whose caller stops pending submits
NextStop ==
  \E c \in Clients :
    \/ StartPath(c)
    \/ AnswerRequest(c) \/ AnswerResponse(c)
    \/ StopCurrentRequest(c)

SpecStop == Init /\ [][NextStop]_vars

\* the chat of the resume page: messages are sent, streamed and stopped
NextChat ==
  \/ \E token \in BOOLEAN : SendStreamingMessage(token)
  \/ \E ok \in BOOLEAN : StreamResponded(ok)
  \/ StreamRejected
  \/ \E chunk \in Chunks : StreamContent(chunk)
  \/ StreamDone
  \/ StreamError
  \/ StreamClosed
  \/ StopStreaming
  \/ StreamAborted

SpecChat == Init /\ [][NextChat]_vars

\* the responses of the calls that startInterview, loadExistingSession and sendAnswer
\* of page c await
StartResponse(c) ==
  \/ StartCreated(c)
  \/ StartCreateFailed(c)
  \/ FirstQuestionFetched(c)
  \/ FirstQuestionFailed(c)

LoadResponse(c) == LoadSessionsListed(c) \/ LoadFailed(c)

\* one visit of the page, with or without a stored session: the session is created or
\* adopted and answers are sent
NextBusy ==
  \E c \in Clients :
    \/ AutoStartEffect(c)
    \/ \E q \in QuestionCountParams : CheckSessionsListed(c, q)
    \/ StartResponse(c)
    \/ ConfirmContinue(c)
    \/ ConfirmDiscard(c)
    \/ \E q \in QuestionCountParams, ok \in BOOLEAN : DiscardEndResolved(c, q, ok)
    \/ DiscardEndThrew(c)
    \/ AutoLoadEffect(c)
    \/ LoadResponse(c)
    \/ AutoFinalize(c)
    \/ AnswerRequest(c) \/ AnswerResponse(c)

\* every awaited call of startInterview, loadExistingSession and sendAnswer resolves
\* or rejects
SpecBusy ==
  /\ InitStored
  /\ [][NextBusy]_vars
  /\ \A c \in Clients :
       /\ WF_vars(StartResponse(c))
       /\ WF_vars(LoadResponse(c))
       /\ WF_vars(AnswerResponse(c))

\* one visit of the page during which a user of the hook also calls startInterview
NextStart ==
  \E c \in Clients :
    \/ StartPath(c) \/ Reconcile(c) \/ AutoFinalize(c)
    \/ AnswerRequest(c) \/ AnswerResponse(c)
    \/ \E q \in QuestionCountParams : StartInterview(c, q)

SpecStart == InitStored /\ [][NextStart]_vars

\* VoiceControls with auto-play
NextAutoPlay ==
  \/ ToggleAutoPlay
  \/ \E text \in QuestionTexts : QuestionTextChanged(text)
  \/ AutoPlayTimerFired
  \/ AttemptSucceeded
  \/ AttemptFailed

SpecAutoPlay == InitAutoPlay /\ [][NextAutoPlay]_vars

\* the interviews page reads the session list and its user deletes sessions
NextDeletes ==
  \/ FetchInterviewSessions
  \/ FetchInterviewSessionsFailed
  \/ \E sessionId \in StoredIds, confirmed \in BOOLEAN :
       HandleDeleteInterview(sessionId, confirmed)
  \/ \E sessionId \in StoredIds : DeleteResolved(sessionId)
  \/ \E sessionId \in StoredIds : DeleteRejected(sessionId)

SpecDeletes == InitDeletes /\ [][NextDeletes]_vars

\* the interviews page reads the session list
NextInterviews == FetchInterviewSessions \/ FetchInterviewSessionsFailed

SpecInterviews == InitInterviews /\ [][NextInterviews]_vars

\* nothing of page c awaits a response
Idle(c) ==
  /\ net[c].check = "none"
  /\ net[c].start = "none"
  /\ net[c].load = 0
  /\ net[c].answers = <<>>
  /\ net[c].ends = <<>>

\* MaxVisits visits of the page (the sessions of earlier visits are stored), by a
\* user who issues one operation after the other: an answer, or the end of the
\* interview, only when nothing is awaited
NextReload ==
  \E c \in Clients :
    \/ StartPath(c) \/ Reconcile(c) \/ AutoFinalize(c) \/ ListFailure(c)
    \/ (Idle(c) /\ AnswerRequest(c))
    \/ AnswerResponse(c)
    \/ (Idle(c) /\ HandleEndInterview(c))
    \/ EndResponse(c)
    \/ Reload(c)

SpecReload == Init /\ [][NextReload]_vars

\* ------------------------------------------------------------ properties
\* the kinds of the messages of a transcript, in order
Kinds(messages) == [k \in DOMAIN messages |-> messages[k].kind]

\* the question indices of a list of answer records, in order
Indices(answers) == [k \in DOMAIN answers |-> answers[k].question_index]

\* 0, 1, ..., n - 1
Progression(n) == [k \in 1..n |-> k - 1]

\* the number of operations of page c that are awaiting a response
InFlight(c) ==
  (IF net[c].start # "none" THEN 1 ELSE 0) + (IF net[c].load # 0 THEN 1 ELSE 0)
    + Len(net[c].answers) + Len(net[c].ends)

\* this step appends a user message to the transcript of page c
UserMessageAppended(c) ==
  /\ Len(page'[c].messages) > Len(page[c].messages)
  /\ page'[c].messages[Len(page[c].messages) + 1].type = "user"

\* this step appends the summary message of endInterview to the transcript of page c
SummaryAppended(c) ==
  /\ Len(page'[c].messages) = Len(page[c].messages) + 1
  /\ page'[c].messages[Len(page'[c].messages)].kind = "summary"

\* C1: whenever a page holds a session (created or adopted), the number of its
\* answers equals its currentQuestionIndex
C1_AnswersMatchIndex ==
  \A c \in Clients :
    hook[c].currentSession.id # 0 =>
      Len(hook[c].currentSession.answers) = hook[c].currentSession.currentQuestionIndex

\* C1 witness: an adopted session that had one answer when it was loaded and got a
\* second one by a submit
C1_AdoptedThenAnswered ==
  \E c \in Clients :
    /\ page[c].sessionId # 0
    /\ hook[c].isInterviewActive
    /\ Kinds(page[c].messages) = <<"continue", "answer", "feedback">>
    /\ page[c].messages[1].n = 1
    /\ Len(hook[c].currentSession.answers) = 2

\* C2: a step in which a pending submit fails leaves the session of the page, its
\* answers, its index and its activity as they were and releases the loading flag;
\* a step in which a pending submit succeeds appends exactly the record of that call
\* and advances the index by one
C2_FailedSubmitLeavesSession ==
  [][\A c \in Clients :
       Len(net'[c].answers) < Len(net[c].answers) =>
         IF page'[c].messages = page[c].messages
         THEN /\ page'[c].interviewError = "answer"
              /\ hook'[c].currentSession = hook[c].currentSession
              /\ hook'[c].isInterviewActive = hook[c].isInterviewActive
              /\ ~hook'[c].isLoading
              /\ store' = store
         ELSE hook[c].currentSession.id # 0 =>
                \E i \in DOMAIN net[c].answers :
                  /\ net'[c].answers = RemoveAt(net[c].answers, i)
                  /\ hook'[c].currentSession.answers =
                       Append(hook[c].currentSession.answers,
                              [answer |-> net[c].answers[i].answer,
                               question_index |-> net[c].answers[i].questionIndex])
                  /\ hook'[c].currentSession.currentQuestionIndex =
                       hook[c].currentSession.currentQuestionIndex + 1]_vars

\* C2 witness: a submit failed, the same answer was sent again and succeeded, and the
\* session holds one answer
C2_RetrySucceededOnce ==
  \E c \in Clients :
    /\ page[c].interviewError = "answer"
    /\ Kinds(page[c].messages) = <<"welcome", "answer", "answer", "feedback">>
    /\ Indices(hook[c].currentSession.answers) = <<0>>
    /\ Indices(store[hook[c].currentSession.id].answers) = <<0>>

\* C3 as stated: at most one operation of a page is awaiting its response
C3_OneOperationInFlight == \A c \in Clients : InFlight(c) <= 1

\* C4 as stated: at most one submit is pending, and the answers of the page's session
\* and of the stored session carry the indices 0, 1, 2, ... each once, in order
C4_AnswersStrictlyOrdered ==
  \A c \in Clients :
    /\ Len(net[c].answers) <= 1
    /\ hook[c].currentSession.id # 0 =>
         /\ Indices(hook[c].currentSession.answers) =
              Progression(Len(hook[c].currentSession.answers))
         /\ Indices(store[hook[c].currentSession.id].answers) =
              Progression(Len(store[hook[c].currentSession.id].answers))

\* C5 as stated: once two pages whose checks both found no active session for the
\* resume have finished starting and are active, one session has been created
C5_ConcurrentStartsShareSession ==
  (\A c \in Clients : hook[c].isInterviewActive /\ Idle(c) /\ net[c].activeSession = 0)
    => Len(store) = 1

\* C6: while a page is active, the Evaluator has recorded the indices 0, 1, 2, ... each
\* once and in order, the page's answers carry the same progression and never exceed
\* the planned questions, and with nothing awaited they are the stored answers
C6_SequentialProgression ==
  \A c \in Clients :
    (hook[c].isInterviewActive /\ hook[c].currentSession.id # 0) =>
      LET session == hook[c].currentSession
      IN /\ Indices(session.answers) = Progression(Len(session.answers))
         /\ Indices(store[session.id].answers) = Progression(Len(store[session.id].answers))
         /\ Len(session.answers) <= session.questions
         /\ session.currentQuestionIndex <= session.questions
         /\ Idle(c) => session.answers = store[session.id].answers

\* C6 witness: a created session of MaxQuestions questions, all answered
C6_AllQuestionsAnswered ==
  \E c \in Clients :
    /\ page[c].sessionId = 0
    /\ hook[c].isInterviewActive
    /\ Idle(c)
    /\ hook[c].currentSession.questions = MaxQuestions
    /\ Indices(hook[c].currentSession.answers) = Progression(MaxQuestions)
    /\ hook[c].currentSession.currentQuestionIndex = MaxQuestions

\* C7: a step that sends an answer while the index has reached the number of questions
\* calls no Evaluator, leaves the session and the store as they were, keeps the page
\* active, and ends the transcript with the message that tells the user to end the
\* interview or to go on talking
C7_ExhaustedSubmitCallsNothing ==
  [][\A c \in Clients :
       ( /\ UserMessageAppended(c)
         /\ hook[c].isInterviewActive
         /\ hook[c].currentSession.id # 0
         /\ hook[c].currentSession.currentQuestionIndex >= hook[c].currentSession.questions )
       => /\ net'[c].answers = net[c].answers
          /\ hook'[c].currentSession = hook[c].currentSession
          /\ hook'[c].isInterviewActive
          /\ ~hook'[c].isLoading
          /\ store' = store
          /\ page'[c].messages[Len(page'[c].messages)] = ChatMessage("ai", "allDone", 0)]_vars

\* C7 witness: the transcript of an active page ends with that message
C7_ToldToEndOrContinue ==
  \E c \in Clients :
    /\ hook[c].isInterviewActive
    /\ page[c].messages # <<>>
    /\ page[c].messages[Len(page[c].messages)].kind = "allDone"
    /\ hook[c].currentSession.currentQuestionIndex = hook[c].currentSession.questions

\* the transcript of three answered questions and a fourth answer
ThreeAnswersAndOneMore ==
  <<"welcome", "answer", "feedback", "answer", "feedback", "answer", "feedback",
    "answer", "allDone">>

\* C8: a session created with questionCount 3 whose user answers three times, answers a
\* fourth time and ends: after the fourth answer the page is active with three answers
\* and no Evaluator call pending, the store has three answers; after the end the
\* summary reports three answers and the stored session is completed with three answers
C8_ThreeQuestionInterview ==
  \A c \in Clients :
    (net[c].config = 3 /\ page[c].sessionId = 0) =>
      /\ Kinds(page[c].messages) = ThreeAnswersAndOneMore =>
           /\ hook[c].isInterviewActive
           /\ Len(hook[c].currentSession.answers) = 3
           /\ hook[c].currentSession.currentQuestionIndex = 3
           /\ net[c].answers = <<>>
           /\ store[net[c].session].status = "active"
           /\ Len(store[net[c].session].answers) = 3
      /\ Kinds(page[c].messages) = Append(ThreeAnswersAndOneMore, "summary") =>
           /\ page[c].messages[Len(page[c].messages)].n = 3
           /\ ~hook[c].isInterviewActive
           /\ hook[c].currentSession = NullSession
           /\ store[net[c].session].status = "completed"
           /\ Len(store[net[c].session].answers) = 3

\* C8 witness: the interview of three questions was ended after the fourth answer
C8_EndedAfterFourthAnswer ==
  \E c \in Clients :
    /\ net[c].config = 3
    /\ page[c].sessionId = 0
    /\ Kinds(page[c].messages) = Append(ThreeAnswersAndOneMore, "summary")

\* C9: every endInterview call that resolves, the second one for the same session
\* included, leaves the stored session completed and the page inactive without a
\* session, and reports no error
C9_EndTwiceSucceeds ==
  [][\A c \in Clients :
       SummaryAppended(c) =>
         /\ \A i \in DOMAIN net[c].ends : store'[net[c].ends[i].id].status = "completed"
         /\ page'[c].interviewError = page[c].interviewError
         /\ ~hook'[c].isInterviewActive
         /\ hook'[c].currentSession = NullSession]_vars

\* C9 witness: two endInterview calls for the same session have resolved
C9_EndedTwice ==
  \E c \in Clients :
    \E j, k \in DOMAIN page[c].messages :
      /\ j < k
      /\ page[c].messages[j].kind = "summary"
      /\ page[c].messages[k].kind = "summary"
      /\ page[c].interviewError = ""

\* C10 as stated: while an active session that is not actually completed is stored, a
\* page calls createSession only after the user answered the confirmation (by
\* discarding that session)
C10_NoStartWithoutConfirmation ==
  [][\A c \in Clients :
       ( /\ net[c].start = "none"
         /\ net'[c].start = "create"
         /\ \E s \in ActiveSessions : ~ActuallyCompleted(store[s]) )
       => net[c].check = "discardEnd"]_vars

\* C11 as stated: after the user chose to discard, createSession is called only when
\* the end request for the stale session has succeeded, so the stale session is
\* completed when the new one is requested
C11_DiscardFinalizesFirst ==
  [][\A c \in Clients :
       (net[c].check = "discardEnd" /\ net'[c].start = "create")
       => store'[net[c].activeSession].status = "completed"]_vars

C13_AdoptsListedSession ==
  [][\A c \in Clients :
       /\ ( /\ net[c].load # 0
            /\ net'[c].load = 0
            /\ page'[c].visit = page[c].visit
            /\ page'[c].interviewError # "load"
            /\ net[c].load \in Sessions
            /\ store[net[c].load].status # "completed" )
          => /\ hook'[c].isInterviewActive
             /\ ~hook'[c].isLoading
             /\ hook'[c].currentSession =
                  [id |-> net[c].load,
                   questions |-> store[net[c].load].questions,
                   answers |-> store[net[c].load].answers,
                   currentQuestionIndex |-> Len(store[net[c].load].answers)]
             /\ store' = store
       /\ page[c].sessionId # 0 => net'[c].start = "none"]_vars

\* C13 witness: a page has adopted a session that had an answer, and nothing is awaited
C13_AdoptedWithAnswers ==
  \E c \in Clients :
    /\ page[c].sessionId # 0
    /\ hook[c].isInterviewActive
    /\ Idle(c)
    /\ hook[c].currentSession.id = page[c].sessionId
    /\ Kinds(page[c].messages) = <<"continue">>
    /\ Len(hook[c].currentSession.answers) >= 1
    /\ hook[c].currentSession.answers = store[page[c].sessionId].answers
    /\ Len(store) = 1

C17_FailedEndKeepsSession ==
  [][\A c \in Clients :
       /\ (Len(net'[c].ends) < Len(net[c].ends) /\ page'[c].messages = page[c].messages
             /\ page'[c].visit = page[c].visit)
          => /\ page'[c].interviewError = "end"
             /\ hook'[c] = hook[c]
             /\ hook'[c].isInterviewActive
             /\ hook'[c].currentSession.id # 0
             /\ store' = store
       /\ (page[c].interviewError = "end" /\ hook[c].isInterviewActive)
          => hook[c].currentSession.id # 0]_vars

\* C17 witness: an end failed, the end was asked for again and succeeded
C17_EndSucceededAfterFailure ==
  \E c \in Clients :
    /\ page[c].interviewError = "end"
    /\ Kinds(page[c].messages) = <<"welcome", "answer", "feedback", "summary">>
    /\ ~hook[c].isInterviewActive
    /\ store[net[c].session].status = "completed"


\* the created_at of the newest active session of resume r among sessions
NewestActiveCreatedAt(sessions, r) ==
  LET times == {sessions[k].created_at : k \in {j \in DOMAIN sessions :
                   sessions[j].resume_id = r /\ sessions[j].status = "active"}}
  IN CHOOSE t \in times : \A u \in times : u <= t

\* C18: the session list the interviews page sets after reading the sessions holds
\* the sessions that were returned, ordered by created_at descending, and a session
\* is flagged isPossibleDuplicate exactly when it is active and older than the newest
\* active session of its resume; the newest active session of a resume and every
\* session that is not active are not flagged.
C18_SortedAndOlderActiveFlagged ==
  LET shown == interviews.interviewSessions
      returned == interviews.allSessions
  IN /\ \A i, j \in DOMAIN shown : i < j => shown[i].created_at >= shown[j].created_at
     /\ shown # <<>> =>
          /\ Len(shown) = Len(returned)
          /\ \A k \in DOMAIN returned : \E j \in DOMAIN shown :
               ListedSession(shown[j].id, shown[j].resume_id, shown[j].status,
                             shown[j].created_at) = returned[k]
     /\ \A k \in DOMAIN shown :
          /\ shown[k].status # "active" => ~shown[k].isPossibleDuplicate
          /\ shown[k].status = "active" =>
               (shown[k].isPossibleDuplicate <=>
                  shown[k].created_at < NewestActiveCreatedAt(shown, shown[k].resume_id))

\* C18 witness: three sessions of one resume were returned oldest first, two of them
\* active and of different created_at; the list shows the newest first and flags the
\* older active session only
C18_OlderOfTwoActiveFlagged ==
  LET shown == interviews.interviewSessions
      returned == interviews.allSessions
  IN /\ interviews.fetched
     /\ Len(shown) = 3
     /\ returned[1].created_at < returned[2].created_at
     /\ returned[2].created_at < returned[3].created_at
     /\ \A k \in 1..3 : shown[k].resume_id = 1
     /\ shown[1].id = 3 /\ shown[1].status = "active" /\ ~shown[1].isPossibleDuplicate
     /\ shown[2].id = 2 /\ shown[2].status = "completed" /\ ~shown[2].isPossibleDuplicate
     /\ shown[3].id = 1 /\ shown[3].status = "active" /\ shown[3].isPossibleDuplicate


\* C19 as stated: when the page, opened while two active sessions of the resume were
\* stored, has finished its check of the existing sessions and is active with nothing
\* awaited, at most one session of the resume is still active
C19_ResolvingLeavesOneActive ==
  \A c \in Clients :
    (page[c].open /\ page[c].hasCheckedExistingSession /\ hook[c].isInterviewActive
       /\ Idle(c))
      => Cardinality(ActiveSessions) <= 1


\* C20 as stated: while a page is active, the currentQuestionIndex of its session is
\* at least 0 and at most the number of its questions
C20_IndexWithinQuestions ==
  \A c \in Clients :
    (hook[c].isInterviewActive /\ hook[c].currentSession.id # 0)
      => /\ 0 <= hook[c].currentSession.currentQuestionIndex
         /\ hook[c].currentSession.currentQuestionIndex <= hook[c].currentSession.questions

\* C21: a stored session that is completed keeps its questions and answers in every
\* step, no page's local session of it is created or changed, no submit is issued for
\* it; and a step that delivers the response of a submit to a page whose session was
\* cleared by a completed end leaves that page without a session
C21_CompletedSessionFrozen ==
  [][/\ \A s \in 1..Len(store) :
          store[s].status = "completed" =>
            /\ store'[s].questions = store[s].questions
            /\ store'[s].answers = store[s].answers
            /\ \A c \in Clients :
                 /\ hook'[c].currentSession.id = s =>
                      hook'[c].currentSession = hook[c].currentSession
                 /\ \A i \in DOMAIN net'[c].answers :
                      net'[c].answers[i].session = s =>
                        \E j \in DOMAIN net[c].answers : net[c].answers[j].session = s
     /\ \A c \in Clients :
          (hook[c].currentSession = NullSession
             /\ Len(net'[c].answers) < Len(net[c].answers))
            => hook'[c].currentSession = NullSession]_vars

\* C21 witness: the end of the interview completed while a submit that the Evaluator
\* had recorded was pending; its response came after the summary, the page has no
\* session and the stored session still has the one answer
C21_ResponseAfterEnd ==
  \E c \in Clients :
    /\ Kinds(page[c].messages) = <<"welcome", "answer", "summary", "feedback">>
    /\ hook[c].currentSession = NullSession
    /\ ~hook[c].isInterviewActive
    /\ store[net[c].session].status = "completed"
    /\ Len(store[net[c].session].answers) = 1

\* C22 as stated: a step in which a call of page c fails (the creation or the first
\* question of a start, the list request of a resume, a submit, an end), the page not
\* being reloaded, reports an error and leaves the local session as it was before the
\* operation: none for a start or a resume, the current one for a submit or an end
C22_FailureSurfacedMirrorKept ==
  [][\A c \in Clients :
       page'[c].visit = page[c].visit =>
         /\ ( \/ net[c].start = "create" /\ net'[c].start = "none"
              \/ /\ net[c].start = "question"
                 /\ page'[c].messages = Append(page[c].messages, ChatMessage("ai", "fallback", 0))
              \/ net[c].load # 0 /\ net'[c].load = 0 /\ ~hook'[c].isInterviewActive )
            => /\ page'[c].interviewError # ""
               /\ hook'[c].currentSession = NullSession
               /\ ~hook'[c].isInterviewActive
         /\ ( /\ page'[c].messages = page[c].messages
              /\ \/ Len(net'[c].answers) < Len(net[c].answers)
                 \/ Len(net'[c].ends) < Len(net[c].ends) )
            => /\ page'[c].interviewError # ""
               /\ hook'[c].currentSession = hook[c].currentSession]_vars

\* C23 as stated: a step that delivers the response of a submit for which
\* stopCurrentRequest was called while it was pending appends no answer record and
\* leaves the session of the page, its answers and its index as they were
C23_StoppedSubmitAppendsNothing ==
  [][\A c \in Clients : \A i \in DOMAIN net[c].answers :
       (net[c].answers[i].stopped /\ net'[c].answers = RemoveAt(net[c].answers, i))
         => hook'[c].currentSession = hook[c].currentSession]_vars

\* C24: a step gives the caller a message only when it ends a stream that is being
\* read, the message is the whole content the stream has carried, and no error comes
\* with it; a step that handles a stream stopped by stopStreaming gives the caller no
\* message and no error and sets isStreaming to false; and isStreaming is true exactly
\* while a request or its stream is open
C24_MessageOnlyWhenDone ==
  /\ [][/\ chat'.messages # chat.messages =>
             /\ chat.stream = "read"
             /\ chat'.messages = Append(chat.messages, chat.received)
             /\ chat'.errors = chat.errors
             /\ chat'.stream = "none"
        /\ (chat.stream = "aborted" /\ chat'.stream # "aborted") =>
             /\ chat'.messages = chat.messages
             /\ chat'.errors = chat.errors
             /\ ~chat'.isStreaming
             /\ chat'.currentStreamingMessage = <<>>]_vars
  /\ [](chat.isStreaming <=> chat.stream # "none")

\* C24 witness: the first stream carried two pieces of content, was done and gave them
\* as one message; the second was stopped after one piece and has given nothing
C24_DeliveredThenStopped ==
  /\ chat.sent = 2
  /\ chat.stream = "aborted"
  /\ chat.errors = 0
  /\ Len(chat.messages) = 1
  /\ Len(chat.messages[1]) = 2
  /\ Len(chat.received) = 1

\* the number of messages of the given type in a list of messages
CountType(messages, type) == Cardinality({k \in DOMAIN messages : messages[k].type = type})

\* C25: in every step of a page that is not reloaded the transcript keeps the messages
\* it had, in their places, and gets at most one user message and at most one
\* assistant message; it gets a user message exactly in the steps in which the user
\* submits an answer (the input is taken and cleared), whether the submit then
\* succeeds, fails or is a retry
C25_TranscriptAppendOnly ==
  [][\A c \in Clients :
       page'[c].visit = page[c].visit =>
         /\ Len(page'[c].messages) >= Len(page[c].messages)
         /\ SubSeq(page'[c].messages, 1, Len(page[c].messages)) = page[c].messages
         /\ LET new == SubSeq(page'[c].messages, Len(page[c].messages) + 1,
                              Len(page'[c].messages))
            IN /\ CountType(new, "user") <= 1
               /\ CountType(new, "ai") <= 1
               /\ CountType(new, "user") = 1 <=>
                    (page[c].inputMessage # "" /\ page'[c].inputMessage = "")]_vars

\* C25 witness: an answer was submitted and failed, was submitted again and evaluated,
\* and the interview was ended: two user messages for the two submits, each
\* assistant turn once, nothing removed
C25_FailedRetriedEnded ==
  \E c \in Clients :
    /\ Kinds(page[c].messages) = <<"welcome", "answer", "answer", "feedback", "summary">>
    /\ page[c].interviewError = "answer"
    /\ CountType(page[c].messages, "user") = 2
    /\ Len(store[net[c].session].answers) = 1

\* C26: whenever the loading flag of a page is set, it is cleared later, given that
\* every call the hook awaits resolves or rejects
C26_LoadingFlagReleased ==
  \A c \in Clients : hook[c].isLoading ~> ~hook[c].isLoading

\* C26 witness: a stored session was adopted, a submit failed, the next submits were
\* evaluated until the questions were exhausted and one more answer was sent: the
\* flag was set and cleared by loadExistingSession and by every exit of sendAnswer
C26_EveryExitTaken ==
  \E c \in Clients :
    /\ page[c].sessionId # 0
    /\ page[c].interviewError = "answer"
    /\ page[c].messages # <<>>
    /\ page[c].messages[Len(page[c].messages)].kind = "allDone"
    /\ \E k \in DOMAIN page[c].messages : page[c].messages[k].kind = "feedback"
    /\ ~hook[c].isLoading
    /\ Idle(c)

\* C27: a step in which startInterview is called while the page is active returns the
\* current session and changes nothing else: no call is issued (no list, create or
\* first-question request becomes pending), the store, the local session and the
\* transcript stay as they were
C27_StartWhileActiveIsNoOp ==
  [][\A c \in Clients :
       (hook[c].isInterviewActive /\ net'[c].startCalls # net[c].startCalls) =>
         /\ store' = store
         /\ hook' = hook
         /\ page' = page
         /\ net'[c] = [net[c] EXCEPT !.startCalls = @ + 1,
                                     !.startResult = hook[c].currentSession.id]]_vars

\* C27 witness: startInterview was called on a page whose session has one answer and
\* returned that session; it is still the only session of the resume
C27_ReturnedCurrentSession ==
  \E c \in Clients :
    /\ net[c].startResult # 0
    /\ net[c].startResult = hook[c].currentSession.id
    /\ hook[c].isInterviewActive
    /\ Len(hook[c].currentSession.answers) = 1
    /\ Len(store) = 1
    /\ Idle(c)

\* C28 as stated: a step removes a session from the list the interviews page shows
\* only if the store no longer holds that session after the step, and a step that
\* settles a delete request either removes the session from the store and the list or
\* leaves both and records an error for it
C28_RemovedOnlyWhenDeletedInStore ==
  [][\A sessionId \in StoredIds :
       /\ ( /\ sessionId \in SessionIds(interviews.interviewSessions)
            /\ sessionId \notin SessionIds(interviews'.interviewSessions) )
          => sessionId \notin SessionIds(interviews'.allSessions)
       /\ (sessionId \in interviews.deleting /\ sessionId \notin interviews'.deleting)
          => \/ /\ sessionId \notin SessionIds(interviews'.interviewSessions)
                /\ sessionId \notin SessionIds(interviews'.allSessions)
             \/ /\ interviews'.interviewSessions = interviews.interviewSessions
                /\ interviews'.allSessions = interviews.allSessions
                /\ sessionId \in interviews'.deleteErrors]_vars

\* C29 as stated: while the interview of page c is active and none of its operations
\* awaits a response, the question number the page shows is the orchestrator's
\* currentQuestionIndex + 1
C29_ShownQuestionFollowsIndex ==
  \A c \in Clients :
    (page[c].open /\ hook[c].isInterviewActive /\ InFlight(c) = 0)
      => page[c].currentQuestion = hook[c].currentSession.currentQuestionIndex + 1

====
